---- MODULE Spec2Model ----
(***************************************************************************)
(* NoProto: a schema driven byte buffer.  The model keeps the buffer byte  *)
(* for byte: the arena is a sequence of bytes, addresses are 16 bit big    *)
(* endian numbers stored in pointer cells, and every operation of the map  *)
(* engine and of the cursor reads and writes those bytes the way the       *)
(* source does.  Addresses count from 1 (the root cell is at ROOT_PTR_ADDR)*)
(* and 0 is the "no value" address.                                        *)
(***************************************************************************)
EXTENDS Integers, Sequences, FiniteSets, TLC

VARIABLES schema,    \* the parsed schema of the buffer (Vec<NP_Parsed_Schema>)
          bytes,     \* the arena of the buffer
          lastSet,   \* history: leaf path -> value most recently set, not yet deleted
          setsOnly,  \* history: no del and no compact so far
          clean,     \* history: no del and no overwrite of a set value so far
          order,     \* history: keys inserted in the root map since it was last empty
          ordered,   \* history: order is known (no compaction of a non-empty map since)
          factory    \* the schema compilation the buffer came from (NoFactory: given parsed)

vars == <<schema, bytes, lastSet, setsOnly, clean, order, ordered, factory>>

-----------------------------------------------------------------------------
(* Bounds of the model *)

MaxBytes == 26      \* the arena never grows past this many bytes
MaxPathLen == 2     \* the longest path an operation is given

(* The keys and the string values the operations draw from ("a", "bc"; "x", "yz") *)
Keys == { <<97>>, <<98, 99>> }
Vals == { <<120>>, <<121, 122>> }

RECURSIVE SeqsUpTo(_, _)
SeqsUpTo(S, n) ==
    IF n = 0 THEN { <<>> }
    ELSE LET shorter == SeqsUpTo(S, n - 1)
         IN  shorter \cup { Append(p, k) : p \in shorter, k \in S }

\* a key of the length insert rejects, and the longest key it accepts
LongKey == [n \in 1..255 |-> 107]
Key254 == [n \in 1..254 |-> 107]

\* the paths the operations are given: of the short keys, and two that end on
\* the long key
Paths == SeqsUpTo(Keys, MaxPathLen) \cup { << LongKey >>, << <<97>>, LongKey >> }

-----------------------------------------------------------------------------
(* Type keys (schema.rs, NP_TypeKeys) *)

TK_UTF8String == 2
TK_Map == 22
TK_List == 23
TK_Tuple == 24

(* Parsed schemas: a vector of nodes, a map node naming the index of its
   value schema (map.rs, from_json_to_schema pushes Map { value: len + 1 }) *)
\* a node holds its type key, the index of its value schema (maps) and its
\* declared default (scalars)
NoDefault == [some |-> FALSE, val |-> << >>]
StringNode == [i |-> TK_UTF8String, value |-> 0, default |-> NoDefault]
\* a string with the default "d"
StringNodeDefault ==
    [i |-> TK_UTF8String, value |-> 0, default |-> [some |-> TRUE, val |-> << 100 >>]]
MapNode(value_addr) == [i |-> TK_Map, value |-> value_addr, default |-> NoDefault]

\* {"type":"map","value":{"type":"string"}}
SchemaMapOfString == << MapNode(1), StringNode >>
\* {"type":"map","value":{"type":"string","default":"d"}}
SchemaMapOfStringDefault == << MapNode(1), StringNodeDefault >>
\* {"type":"map","value":{"type":"map","value":{"type":"string"}}}
SchemaMapOfMapOfString == << MapNode(1), MapNode(2), StringNode >>

Schemas == { SchemaMapOfString, SchemaMapOfStringDefault, SchemaMapOfMapOfString }

\* NP_Parsed_Schema::List { of } and NP_Parsed_Schema::Tuple { values }
ListNode(of) == [i |-> TK_List, value |-> of, default |-> NoDefault]
TupleNode(values) == [i |-> TK_Tuple, value |-> values, default |-> NoDefault]

SchemaListOfString == << ListNode(1), StringNode >>
SchemaTupleOfStrings == << TupleNode(<< 1, 2 >>), StringNode, StringNode >>
SchemaListOfTuples == << ListNode(1), TupleNode(<< 2, 3 >>), StringNode, StringNode >>

\* the schemas of the buffers that are addressed by index
IndexedSchemas == { SchemaListOfString, SchemaTupleOfStrings, SchemaListOfTuples }

\* memory.schema[addr], addr counted from 0
SchemaAt(sch, addr) == sch[addr + 1]

\* the number of map levels above the scalar
RECURSIVE DepthFrom(_, _)
DepthFrom(sch, addr) ==
    IF SchemaAt(sch, addr).i = TK_Map THEN 1 + DepthFrom(sch, SchemaAt(sch, addr).value)
    ELSE 0
Depth(sch) == DepthFrom(sch, 0)

-----------------------------------------------------------------------------
(* The arena *)

ROOT_PTR_ADDR == 1      \* the address of the root cell
ADDR_MAX == 65535       \* the largest 16 bit address
PTR_SIZE_STANDARD == 2  \* a standard cell: value_addr
PTR_SIZE_MAP_ITEM == 6  \* a map item cell: value_addr, next_addr, key_addr

\* a fresh buffer: the root cell, no value
NewMemory == << 0, 0 >>

read_address(mem, addr) == mem[addr] * 256 + mem[addr + 1]

write_address(mem, addr, v) ==
    [mem EXCEPT ![addr] = v \div 256, ![addr + 1] = v % 256]

\* append data to the arena; fails when the arena would outgrow the address width
malloc_borrow(mem, data) ==
    IF Len(mem) + Len(data) >= ADDR_MAX
    THEN [st |-> "err", addr |-> 0, mem |-> mem]
    ELSE [st |-> "ok", addr |-> Len(mem) + 1, mem |-> mem \o data]

-----------------------------------------------------------------------------
(* Cursors *)

NP_Cursor_new(buff_addr, schema_addr, parent_schema_addr) ==
    [buff_addr |-> buff_addr, schema_addr |-> schema_addr,
     parent_schema_addr |-> parent_schema_addr]

RootCursor == NP_Cursor_new(ROOT_PTR_ADDR, 0, 0)

is_virtual(cursor) == cursor.buff_addr = 0

\* the cell of a cursor: the value address, and for a map item next and key
get_addr_value(mem, cursor) ==
    IF is_virtual(cursor) THEN 0 ELSE read_address(mem, cursor.buff_addr)
set_addr_value(mem, cursor, v) == write_address(mem, cursor.buff_addr, v)
get_next_addr(mem, cursor) == read_address(mem, cursor.buff_addr + 2)
set_next_addr(mem, cursor, v) == write_address(mem, cursor.buff_addr + 2, v)
get_key_addr(mem, cursor) == read_address(mem, cursor.buff_addr + 4)
set_key_addr(mem, cursor, v) == write_address(mem, cursor.buff_addr + 4, v)

\* the key record: a length byte, then the key's bytes
get_key_size(mem, cursor) == mem[get_key_addr(mem, cursor)]
get_key(mem, cursor) ==
    LET ka == get_key_addr(mem, cursor)
    IN  SubSeq(mem, ka + 1, ka + mem[ka])

\* the size of the cell of a cursor: the root is a standard cell, every
\* other cursor of these schemas is a map item
ptr_size(cursor) ==
    IF cursor.buff_addr = ROOT_PTR_ADDR THEN PTR_SIZE_STANDARD ELSE PTR_SIZE_MAP_ITEM

-----------------------------------------------------------------------------
(* The map engine (collection/map.rs) *)

value_of(sch, cursor) == SchemaAt(sch, cursor.schema_addr).value

\* NP_Map::new_iter that takes the pointer cell for a header of its own and
\* the cell it names for the header's successor
new_iter_SkipsHead(mem, map_cursor) ==
    IF get_addr_value(mem, map_cursor) = 0
    THEN [head |-> 0, current |-> 0, map |-> map_cursor]
    ELSE [head |-> read_address(mem, read_address(mem, map_cursor.buff_addr) + 2),
          current |-> 0, map |-> map_cursor]

\* NP_Map::new_iter: the iterator is its head and its current item (0: none)
new_iter(mem, map_cursor) ==
    IF get_addr_value(mem, map_cursor) = 0
    THEN [head |-> 0, current |-> 0, map |-> map_cursor]
    ELSE [head |-> read_address(mem, map_cursor.buff_addr), current |-> 0,
          map |-> map_cursor]

\* NP_Map::step_iter: the next (key, item) of the chain, or none
step_iter(sch, mem, it) ==
    LET item(addr) == NP_Cursor_new(addr, value_of(sch, it.map), it.map.schema_addr)
        none == [some |-> FALSE, key |-> <<>>, item |-> item(0), it |-> it]
    IN  IF it.head = 0 THEN none
        ELSE IF it.current = 0
        THEN [some |-> TRUE, key |-> get_key(mem, item(it.head)),
              item |-> item(it.head), it |-> [it EXCEPT !.current = it.head]]
        ELSE LET next_value == get_next_addr(mem, item(it.current))
             IN  IF next_value = 0 THEN none
                 ELSE [some |-> TRUE, key |-> get_key(mem, item(next_value)),
                       item |-> item(next_value),
                       it |-> [it EXCEPT !.current = next_value]]

\* the (key, item) pairs step_iter yields until it returns none; the walk is
\* cut after fuel steps, which is more than a chain without a cycle can hold
RECURSIVE IterFrom(_, _, _, _)
IterFrom(sch, mem, it, fuel) ==
    LET from(s) ==
            IF ~s.some \/ fuel = 0 THEN << >>
            ELSE << [key |-> s.key, item |-> s.item] >> \o IterFrom(sch, mem, s.it, fuel - 1)
    IN  from(step_iter(sch, mem, it))

\* NP_Map::for_each: the items its callback is called with, in order
for_each(sch, mem, map_cursor) ==
    IterFrom(sch, mem, new_iter(mem, map_cursor), Len(mem))

\* NP_Map::insert without the link to the old head: the chain is cut
insert_NoNext(sch, mem, map_cursor, key) ==
    LET new_cursor(addr) ==
            NP_Cursor_new(addr, value_of(sch, map_cursor), map_cursor.schema_addr)
        link(m1, m2, m3) ==
            [st |-> "ok", cursor |-> new_cursor(m1.addr),
             mem |-> set_addr_value(set_key_addr(m3.mem, new_cursor(m1.addr), m2.addr),
                                    map_cursor, m1.addr)]
        key_bytes(m1, m2) == link(m1, m2, malloc_borrow(m2.mem, key))
        key_size(m1) == key_bytes(m1, malloc_borrow(m1.mem, << Len(key) >>))
    IN  key_size(malloc_borrow(mem, << 0, 0, 0, 0, 0, 0 >>))

\* the length check of NP_Map::insert, and one that lets 255 bytes pass
key_too_long_Above255(key) == Len(key) > 255
key_too_long(key) == Len(key) >= 255

\* NP_Map::insert that stores the address of the item cell as the key address
insert_KeyAddrOfCell(sch, mem, map_cursor, key) ==
    LET new_cursor(addr) ==
            NP_Cursor_new(addr, value_of(sch, map_cursor), map_cursor.schema_addr)
        set_next(head, mem5, cursor) ==
            IF head # 0 THEN set_next_addr(mem5, cursor, head) ELSE mem5
        link(m1, m2, m3) ==
            IF m1.st # "ok" \/ m2.st # "ok" \/ m3.st # "ok"
            THEN [st |-> "err", cursor |-> RootCursor, mem |-> m3.mem]
            ELSE [st |-> "ok", cursor |-> new_cursor(m1.addr),
                  mem |-> set_next(get_addr_value(mem, map_cursor),
                                   set_addr_value(
                                       set_key_addr(m3.mem, new_cursor(m1.addr), m1.addr),
                                       map_cursor, m1.addr),
                                   new_cursor(m1.addr))]
        key_bytes(m1, m2) == link(m1, m2, malloc_borrow(m2.mem, key))
        key_size(m1) == key_bytes(m1, malloc_borrow(m1.mem, << Len(key) >>))
    IN  IF key_too_long(key) THEN [st |-> "err", cursor |-> RootCursor, mem |-> mem]
        ELSE key_size(malloc_borrow(mem, << 0, 0, 0, 0, 0, 0 >>))

\* NP_Map::insert that makes the new item its own next
insert_NextIsSelf(sch, mem, map_cursor, key) ==
    LET own_next(new_item) ==
            [st |-> new_item.st, cursor |-> new_item.cursor,
             mem |-> set_next_addr(new_item.mem, new_item.cursor, new_item.cursor.buff_addr)]
    IN  IF key_too_long(key) THEN [st |-> "err", cursor |-> RootCursor, mem |-> mem]
        ELSE own_next(insert_NoNext(sch, mem, map_cursor, key))

\* NP_Map::insert: a new item cell and key record, made the head of the map
insert(sch, mem, map_cursor, key) ==
    IF key_too_long(key) THEN [st |-> "err", cursor |-> RootCursor, mem |-> mem]
    ELSE
    LET new_cursor(addr) ==
            NP_Cursor_new(addr, value_of(sch, map_cursor), map_cursor.schema_addr)
        \* the new item becomes the head; the old head, if any, is its next
        set_next(head, mem5, cursor) ==
            IF head # 0 THEN set_next_addr(mem5, cursor, head) ELSE mem5
        \* m1: the item cell, m2: the length byte, m3: the bytes of the key
        link(m1, m2, m3) ==
            IF m1.st # "ok" \/ m2.st # "ok" \/ m3.st # "ok"
            THEN [st |-> "err", cursor |-> RootCursor, mem |-> m3.mem]
            ELSE [st |-> "ok", cursor |-> new_cursor(m1.addr),
                  mem |-> set_next(get_addr_value(mem, map_cursor),
                                   set_addr_value(
                                       set_key_addr(m3.mem, new_cursor(m1.addr), m2.addr),
                                       map_cursor, m1.addr),
                                   new_cursor(m1.addr))]
        key_bytes(m1, m2) == link(m1, m2, malloc_borrow(m2.mem, key))
        key_size(m1) == key_bytes(m1, malloc_borrow(m1.mem, << Len(key) >>))
    IN  key_size(malloc_borrow(mem, << 0, 0, 0, 0, 0, 0 >>))

\* the key comparison of select dropped: every item matches
Matching_AnyKey(items, key) == items

\* the items of the map whose key is the one asked for, nearest the head first
Matching(items, key) == SelectSeq(items, LAMBDA e : e.key = key)

\* NP_Map::select without the walk: every select inserts
NP_Map_select_AlwaysInsert(sch, mem, map_cursor, key, schema_only) ==
    insert(sch, mem, map_cursor, key)

\* NP_Map::select that returns a virtual cursor for a key it does not find
NP_Map_select_NoInsert(sch, mem, map_cursor, key, schema_only) ==
    LET first(found) ==
            IF found # << >>
            THEN [st |-> "ok", cursor |-> found[1].item, mem |-> mem]
            ELSE [st |-> "ok",
                  cursor |-> NP_Cursor_new(0, value_of(sch, map_cursor), map_cursor.schema_addr),
                  mem |-> mem]
    IN  first(Matching(for_each(sch, mem, map_cursor), key))

\* NP_Map::select: the first item with the key, or a newly inserted one
NP_Map_select(sch, mem, map_cursor, key, schema_only) ==
    IF schema_only
    THEN [st |-> "ok",
          cursor |-> NP_Cursor_new(0, value_of(sch, map_cursor), map_cursor.schema_addr),
          mem |-> mem]
    ELSE LET first(found) ==
                 IF found # << >>
                 THEN [st |-> "ok", cursor |-> found[1].item, mem |-> mem]
                 ELSE insert(sch, mem, map_cursor, key)
         IN  first(Matching(for_each(sch, mem, map_cursor), key))

-----------------------------------------------------------------------------
(* The string codec: a record of a 16 bit length and the bytes *)

\* write the bytes of data over the arena from addr on
write_bytes(mem, addr, data) ==
    [n \in 1..Len(mem) |->
        IF n >= addr /\ n < addr + Len(data) THEN data[n - addr + 1] ELSE mem[n]]

\* String::set_value: the record is written over the old one when reuse is
\* chosen and it fits there, and is allocated otherwise
String_set_value(mem, cursor, value, reuse) ==
    LET old == get_addr_value(mem, cursor)
        rec == << Len(value) \div 256, Len(value) % 256 >> \o value
        m   == malloc_borrow(mem, rec)
    IN  IF reuse /\ old # 0 /\ Len(value) <= read_address(mem, old)
        THEN [st |-> "ok", mem |-> write_bytes(mem, old, rec)]
        ELSE IF m.st # "ok" THEN [st |-> "err", mem |-> m.mem]
        ELSE [st |-> "ok", mem |-> set_addr_value(m.mem, cursor, m.addr)]

\* String::into_value: the string at the cursor, none when no value is set
String_into_value(mem, cursor) ==
    LET addr == get_addr_value(mem, cursor)
    IN  IF addr = 0 THEN [st |-> "ok", some |-> FALSE, val |-> << >>]
        ELSE [st |-> "ok", some |-> TRUE,
              val |-> SubSeq(mem, addr + 2, addr + 1 + read_address(mem, addr))]

\* String::get_size
String_get_size(mem, cursor) ==
    LET addr == get_addr_value(mem, cursor)
    IN  IF addr = 0 THEN 0 ELSE read_address(mem, addr) + 2

\* String::schema_default: the default the schema node declares, if any
schema_default(sch, cursor) ==
    [st |-> "ok", some |-> SchemaAt(sch, cursor.schema_addr).default.some,
     val |-> SchemaAt(sch, cursor.schema_addr).default.val]

-----------------------------------------------------------------------------
(* JSON values: null, a string, or an object (a set of <<key, value>> pairs) *)

JSON_Null == [t |-> "null", s |-> << >>, d |-> {}]
JSON_String(v) == [t |-> "string", s |-> v, d |-> {}]
JSON_Dictionary(pairs) == [t |-> "dictionary", s |-> << >>, d |-> pairs]

\* JSMAP::insert: the entry of the key is replaced
JSMAP_insert(pairs, key, value) ==
    { e \in pairs : e[1] # key } \cup { << key, value >> }

-----------------------------------------------------------------------------
(* The type a cursor is of *)

type_key(sch, cursor) == SchemaAt(sch, cursor.schema_addr).i

-----------------------------------------------------------------------------
(* Path segments that are indexes: str::parse::<u16>() and ::<u8>() *)

U16_MAX == 65535
U8_MAX == 255

ParseErr == [st |-> "err", val |-> 0]

\* the digits one at a time, most significant first: the result times ten plus
\* the digit; a byte that is no digit and a result beyond max are errors
RECURSIVE from_str_radix_10(_, _, _)
from_str_radix_10(digits, result, max) ==
    IF digits = << >> THEN [st |-> "ok", val |-> result]
    ELSE IF digits[1] \notin 48..57 THEN ParseErr
    ELSE IF result * 10 + (digits[1] - 48) > max THEN ParseErr
    ELSE from_str_radix_10(Tail(digits), result * 10 + (digits[1] - 48), max)

\* parse of an unsigned integer: the empty string is an error, one leading '+'
\* is skipped, a '+' alone is an error, '-' is no digit
parse_unsigned(src, max) ==
    IF src = << >> THEN ParseErr
    ELSE IF src[1] = 43 THEN (IF Len(src) = 1 THEN ParseErr
                              ELSE from_str_radix_10(Tail(src), 0, max))
    ELSE from_str_radix_10(src, 0, max)

\* the digits one at a time with a result that wraps at 16 bits
RECURSIVE from_str_radix_10_Wrapping(_, _)
from_str_radix_10_Wrapping(digits, result) ==
    IF digits = << >> THEN [st |-> "ok", val |-> result]
    ELSE IF digits[1] \notin 48..57 THEN ParseErr
    ELSE from_str_radix_10_Wrapping(Tail(digits),
                                    (result * 10 + (digits[1] - 48)) % (U16_MAX + 1))

\* parse::<u16>() that wraps where it should report the overflow
parse_u16_Wrapping(src) ==
    IF src = << >> THEN ParseErr ELSE from_str_radix_10_Wrapping(src, 0)

\* list_key.parse::<u16>()
parse_u16(src) == parse_unsigned(src, U16_MAX)

\* list_key.parse::<u8>()
parse_u8(src) == parse_unsigned(src, U8_MAX)

-----------------------------------------------------------------------------
(* The list engine: a 4 byte header (head, tail) at the list's value       *)
(* address, items of 6 bytes (value, next, index) in ascending index order.*)

LIST_HEADER == << 0, 0, 0, 0 >>

get_index(mem, item_addr) == read_address(mem, item_addr + 4)

\* the item with the index in the walk from item_addr, 0 when there is none
RECURSIVE list_find(_, _, _)
list_find(mem, item_addr, index) ==
    IF item_addr = 0 THEN 0
    ELSE IF get_index(mem, item_addr) = index THEN item_addr
    ELSE list_find(mem, read_address(mem, item_addr + 2), index)

\* the last item with an index below index in the walk, prev when there is none
RECURSIVE list_prev(_, _, _, _)
list_prev(mem, item_addr, prev, index) ==
    IF item_addr = 0 \/ get_index(mem, item_addr) > index THEN prev
    ELSE list_prev(mem, read_address(mem, item_addr + 2), item_addr, index)

\* NP_List::select_to_ptr: the item with the index, or a virtual cursor that
\* remembers the index and the list
NP_List_select_to_ptr(sch, mem, cursor, x) ==
    LET list_addr == get_addr_value(mem, cursor)
        found == IF list_addr = 0 THEN 0
                 ELSE list_find(mem, read_address(mem, list_addr), x)
    IN  [st |-> "ok",
         cursor |-> NP_Cursor_new(found, value_of(sch, cursor), cursor.schema_addr),
         mem |-> mem, index |-> x, list |-> cursor]

\* NP_List::commit_pointer, on the result of a select: a virtual cursor gets
\* its cell, spliced in by index; the header is made when the list has none
NP_List_commit_pointer(selected) ==
    LET x == selected.index
        splice(mem, list_addr, cell, prev) ==
            LET next == IF prev = 0 THEN read_address(mem, list_addr)
                        ELSE read_address(mem, prev + 2)
                linked == write_address(mem, cell + 2, next)
                after == IF prev = 0 THEN write_address(linked, list_addr, cell)
                         ELSE write_address(linked, prev + 2, cell)
            IN  IF next = 0 THEN write_address(after, list_addr + 2, cell) ELSE after
        add_item(cell, list_addr) ==
            IF cell.st # "ok"
            THEN [st |-> "err", cursor |-> selected.cursor, mem |-> selected.mem]
            ELSE [st |-> "ok",
                  cursor |-> NP_Cursor_new(cell.addr, selected.cursor.schema_addr,
                                           selected.cursor.parent_schema_addr),
                  mem |-> splice(cell.mem, list_addr, cell.addr,
                                 list_prev(cell.mem, read_address(cell.mem, list_addr), 0, x))]
        new_item(mem, list_addr) ==
            add_item(malloc_borrow(mem, << 0, 0, 0, 0, x \div 256, x % 256 >>), list_addr)
        with_header(header) ==
            IF header.st # "ok"
            THEN [st |-> "err", cursor |-> selected.cursor, mem |-> selected.mem]
            ELSE new_item(write_address(header.mem, selected.list.buff_addr, header.addr),
                          header.addr)
    IN  IF selected.st # "ok" \/ ~is_virtual(selected.cursor)
        THEN [st |-> selected.st, cursor |-> selected.cursor, mem |-> selected.mem]
        ELSE IF get_addr_value(selected.mem, selected.list) = 0
        THEN with_header(malloc_borrow(selected.mem, LIST_HEADER))
        ELSE new_item(selected.mem, get_addr_value(selected.mem, selected.list))

-----------------------------------------------------------------------------
(* The tuple engine: one 2 byte slot per value at the tuple's value address *)

\* NP_Tuple::select_to_ptr: an index from the arity on is an error; the slots
\* are made when the tuple has none, so that a slot always has an address
NP_Tuple_select_to_ptr(sch, mem, cursor, x) ==
    LET values == value_of(sch, cursor)
        slot(tuple_addr, m) ==
            [st |-> "ok",
             cursor |-> NP_Cursor_new(tuple_addr + 2 * x, values[x + 1], cursor.schema_addr),
             mem |-> m]
        made(slots) ==
            IF slots.st # "ok" THEN [st |-> "err", cursor |-> cursor, mem |-> mem]
            ELSE slot(slots.addr, write_address(slots.mem, cursor.buff_addr, slots.addr))
    IN  IF x >= Len(values) THEN [st |-> "err", cursor |-> cursor, mem |-> mem]
        ELSE IF is_virtual(cursor)
        THEN [st |-> "ok", cursor |-> NP_Cursor_new(0, values[x + 1], cursor.schema_addr),
              mem |-> mem]
        ELSE IF get_addr_value(mem, cursor) = 0
        THEN made(malloc_borrow(mem, [n \in 1..(2 * Len(values)) |-> 0]))
        ELSE slot(get_addr_value(mem, cursor), mem)

-----------------------------------------------------------------------------
(* The cursor (pointer/mod.rs) *)

\* NP_Map::commit_pointer, on the result of a select: a cursor that has a
\* cell is left as it is
commit_pointer(selected) == selected

\* NP_Cursor::select
RECURSIVE NP_Cursor_select(_, _, _, _, _)
\* NP_Cursor::select that fails when segments remain at a scalar
NP_Cursor_select_ErrAtScalar(sch, mem, cursor, path, path_index) ==
    LET loop(new_cursor) ==
            IF new_cursor.st # "ok"
            THEN [st |-> new_cursor.st, cursor |-> new_cursor.cursor, mem |-> new_cursor.mem]
            ELSE NP_Cursor_select(sch, new_cursor.mem, new_cursor.cursor,
                                  path, path_index + 1)
        list(list_key_int) ==
            IF list_key_int.st # "ok" THEN [st |-> "err", cursor |-> cursor, mem |-> mem]
            ELSE loop(NP_List_select_to_ptr(sch, mem, cursor, list_key_int.val))
        tuple(list_key_int) ==
            IF list_key_int.st # "ok" THEN [st |-> "err", cursor |-> cursor, mem |-> mem]
            ELSE loop(NP_Tuple_select_to_ptr(sch, mem, cursor, list_key_int.val))
    IN  IF Len(path) = path_index THEN [st |-> "ok", cursor |-> cursor, mem |-> mem]
        ELSE IF type_key(sch, cursor) = TK_Map
        THEN loop(NP_Map_select(sch, mem, cursor, path[path_index + 1], FALSE))
        ELSE IF type_key(sch, cursor) = TK_List
        THEN list(parse_u16(path[path_index + 1]))
        ELSE IF type_key(sch, cursor) = TK_Tuple
        THEN tuple(parse_u8(path[path_index + 1]))
        ELSE [st |-> "err", cursor |-> cursor, mem |-> mem]

NP_Cursor_select(sch, mem, cursor, path, path_index) ==
    LET loop(new_cursor) ==
            IF new_cursor.st # "ok"
            THEN [st |-> new_cursor.st, cursor |-> new_cursor.cursor, mem |-> new_cursor.mem]
            ELSE NP_Cursor_select(sch, new_cursor.mem, new_cursor.cursor,
                                  path, path_index + 1)
        list(list_key_int) ==
            IF list_key_int.st # "ok" THEN [st |-> "err", cursor |-> cursor, mem |-> mem]
            ELSE loop(NP_List_select_to_ptr(sch, mem, cursor, list_key_int.val))
        tuple(list_key_int) ==
            IF list_key_int.st # "ok" THEN [st |-> "err", cursor |-> cursor, mem |-> mem]
            ELSE loop(NP_Tuple_select_to_ptr(sch, mem, cursor, list_key_int.val))
    IN  IF Len(path) = path_index THEN [st |-> "ok", cursor |-> cursor, mem |-> mem]
        ELSE IF type_key(sch, cursor) = TK_Map
        THEN loop(NP_Map_select(sch, mem, cursor, path[path_index + 1], FALSE))
        ELSE IF type_key(sch, cursor) = TK_List
        THEN list(parse_u16(path[path_index + 1]))
        ELSE IF type_key(sch, cursor) = TK_Tuple
        THEN tuple(parse_u8(path[path_index + 1]))
        ELSE [st |-> "ok", cursor |-> cursor, mem |-> mem]

\* NP_Cursor::select_with_commit
RECURSIVE select_with_commit(_, _, _, _, _)
select_with_commit(sch, mem, cursor, path, path_index) ==
    LET loop(new_cursor) ==
            IF new_cursor.st # "ok"
            THEN [st |-> new_cursor.st, cursor |-> new_cursor.cursor, mem |-> new_cursor.mem]
            ELSE select_with_commit(sch, new_cursor.mem, new_cursor.cursor,
                                    path, path_index + 1)
        list(list_key_int) ==
            IF list_key_int.st # "ok" THEN [st |-> "err", cursor |-> cursor, mem |-> mem]
            ELSE loop(NP_List_commit_pointer(
                          NP_List_select_to_ptr(sch, mem, cursor, list_key_int.val)))
        tuple(list_key_int) ==
            IF list_key_int.st # "ok" THEN [st |-> "err", cursor |-> cursor, mem |-> mem]
            ELSE loop(NP_Tuple_select_to_ptr(sch, mem, cursor, list_key_int.val))
    IN  IF Len(path) = path_index THEN [st |-> "ok", cursor |-> cursor, mem |-> mem]
        ELSE IF type_key(sch, cursor) = TK_Map
        THEN loop(commit_pointer(NP_Map_select(sch, mem, cursor, path[path_index + 1], FALSE)))
        ELSE IF type_key(sch, cursor) = TK_List
        THEN list(parse_u16(path[path_index + 1]))
        ELSE IF type_key(sch, cursor) = TK_Tuple
        THEN tuple(parse_u8(path[path_index + 1]))
        ELSE [st |-> "ok", cursor |-> cursor, mem |-> mem]

\* NP_Cursor::get_here::<T> that returns none for an unset value
get_here_NoDefault(sch, mem, cursor, T) ==
    IF type_key(sch, cursor) # T THEN [st |-> "err", some |-> FALSE, val |-> << >>]
    ELSE String_into_value(mem, cursor)

\* NP_Cursor::get_here::<T>
get_here(sch, mem, cursor, T) ==
    IF type_key(sch, cursor) # T THEN [st |-> "err", some |-> FALSE, val |-> << >>]
    ELSE LET x == String_into_value(mem, cursor)
         IN  IF x.st # "ok" \/ x.some THEN x ELSE schema_default(sch, cursor)

\* String::default()
String_default == << >>

\* NP_Cursor::set_default: a string gets set_value(String::default()), a
\* collection nothing
set_default(sch, mem, cursor, reuse) ==
    IF type_key(sch, cursor) = TK_UTF8String
    THEN String_set_value(mem, cursor, String_default, reuse)
    ELSE [st |-> "ok", mem |-> mem]

\* NP_Cursor::set_here::<T> without the typecast check
set_here_NoTypecast(sch, mem, cursor, T, value, reuse) ==
    String_set_value(mem, cursor, value, reuse)

\* NP_Cursor::set_here::<T>
set_here(sch, mem, cursor, T, value, reuse) ==
    IF type_key(sch, cursor) # T THEN [st |-> "err", mem |-> mem]
    ELSE String_set_value(mem, cursor, value, reuse)

\* NP_Cursor::clear_here that reports a cleared value for every cursor
clear_here_AlwaysTrue(mem, cursor) ==
    IF ~is_virtual(cursor) /\ get_addr_value(mem, cursor) # 0
    THEN [flag |-> TRUE, mem |-> write_address(mem, cursor.buff_addr, 0)]
    ELSE [flag |-> TRUE, mem |-> mem]

\* NP_Cursor::clear_here that reports the clear and writes nothing
clear_here_NoWrite(mem, cursor) ==
    [flag |-> ~is_virtual(cursor) /\ get_addr_value(mem, cursor) # 0, mem |-> mem]

\* NP_Cursor::clear_here
clear_here(mem, cursor) ==
    IF ~is_virtual(cursor) /\ get_addr_value(mem, cursor) # 0
    THEN [flag |-> TRUE, mem |-> write_address(mem, cursor.buff_addr, 0)]
    ELSE [flag |-> FALSE, mem |-> mem]

\* NP_Cursor::json_encode and NP_Map::to_json
RECURSIVE json_encode(_, _, _), NP_Map_to_json(_, _, _), ToJsonItems(_, _, _, _)
json_encode(sch, mem, cursor) ==
    IF get_addr_value(mem, cursor) = 0 THEN JSON_Null
    ELSE IF type_key(sch, cursor) = TK_UTF8String
    THEN JSON_String(String_into_value(mem, cursor).val)
    ELSE IF type_key(sch, cursor) = TK_Map THEN NP_Map_to_json(sch, mem, cursor)
    ELSE JSON_Null

\* the callback of to_json over the items: json_map.insert(key, json_encode(item))
ToJsonItems(sch, mem, items, json_map) ==
    IF items = << >> THEN json_map
    ELSE ToJsonItems(sch, mem, Tail(items),
                     JSMAP_insert(json_map, items[1].key, json_encode(sch, mem, items[1].item)))

NP_Map_to_json(sch, mem, cursor) ==
    IF get_addr_value(mem, cursor) = 0 THEN JSON_Null
    ELSE JSON_Dictionary(ToJsonItems(sch, mem, for_each(sch, mem, cursor), {}))

\* NP_Cursor::calc_size and NP_Map::get_size
RECURSIVE calc_size(_, _, _), NP_Map_get_size(_, _, _), GetSizeItems(_, _, _, _),
          GetSizeItems_NoLengthByte(_, _, _, _)
\* NP_Cursor::calc_size that counts no cell for a cursor without a value
calc_size_NoValueNoSize(sch, mem, cursor) ==
    IF cursor.buff_addr = 0 \/ get_addr_value(mem, cursor) = 0 THEN [st |-> "ok", size |-> 0]
    ELSE LET type_size ==
                 IF type_key(sch, cursor) = TK_UTF8String
                 THEN [st |-> "ok", size |-> String_get_size(mem, cursor)]
                 ELSE NP_Map_get_size(sch, mem, cursor)
         IN  [st |-> "ok", size |-> type_size.size + ptr_size(cursor)]

calc_size(sch, mem, cursor) ==
    IF cursor.buff_addr = 0 THEN [st |-> "ok", size |-> 0]
    ELSE IF get_addr_value(mem, cursor) = 0 THEN [st |-> "ok", size |-> ptr_size(cursor)]
    ELSE LET type_size ==
                 IF type_key(sch, cursor) = TK_UTF8String
                 THEN [st |-> "ok", size |-> String_get_size(mem, cursor)]
                 ELSE IF type_key(sch, cursor) = TK_Map THEN NP_Map_get_size(sch, mem, cursor)
                 ELSE [st |-> "ok", size |-> 0]
         IN  IF type_size.st # "ok" THEN type_size
             ELSE [st |-> "ok", size |-> type_size.size + ptr_size(cursor)]

\* the callback of get_size without the length byte of the key
GetSizeItems_NoLengthByte(sch, mem, items, acc_size) ==
    IF items = << >> THEN [st |-> "ok", size |-> acc_size]
    ELSE GetSizeItems_NoLengthByte(sch, mem, Tail(items),
             acc_size + get_key_size(mem, items[1].item)
                      + calc_size(sch, mem, items[1].item).size)

\* the callback of get_size over the items: the length byte, the key, the item
GetSizeItems(sch, mem, items, acc_size) ==
    IF items = << >> THEN [st |-> "ok", size |-> acc_size]
    ELSE LET item_size == calc_size(sch, mem, items[1].item)
         IN  IF item_size.st # "ok" THEN [st |-> "panic", size |-> acc_size]
             ELSE GetSizeItems(sch, mem, Tail(items),
                               acc_size + 1 + get_key_size(mem, items[1].item) + item_size.size)

\* NP_Map::get_size that counts a two byte header of the map
NP_Map_get_size_WithHeader(sch, mem, cursor) ==
    IF get_addr_value(mem, cursor) = 0 THEN [st |-> "ok", size |-> 0]
    ELSE [st |-> "ok",
          size |-> 2 + GetSizeItems(sch, mem, for_each(sch, mem, cursor), 0).size]

NP_Map_get_size(sch, mem, cursor) ==
    IF get_addr_value(mem, cursor) = 0 THEN [st |-> "ok", size |-> 0]
    ELSE GetSizeItems(sch, mem, for_each(sch, mem, cursor), 0)

\* NP_Value::do_compact that copies no value
String_do_compact_Skip(from_cursor, from_mem, to_cursor, to_mem) ==
    [st |-> "ok", mem |-> to_mem, from |-> from_mem]

\* NP_Value::do_compact of a scalar: set(to, get(from)). The results of a
\* compaction hold the destination arena (mem) and the source arena (from)
\* as the call leaves them.
String_do_compact(from_cursor, from_mem, to_cursor, to_mem) ==
    LET x == String_into_value(from_mem, from_cursor)
        set == String_set_value(to_mem, to_cursor, x.val, FALSE)
    IN  IF x.st # "ok" THEN [st |-> "err", mem |-> to_mem, from |-> from_mem]
        ELSE IF x.some THEN [st |-> set.st, mem |-> set.mem, from |-> from_mem]
        ELSE [st |-> "ok", mem |-> to_mem, from |-> from_mem]

\* NP_Cursor::compact and NP_Map::do_compact
RECURSIVE compact(_, _, _, _, _), NP_Map_do_compact(_, _, _, _, _),
          CompactItems(_, _, _, _, _), CompactItems_InsertIntoSource(_, _, _, _, _)
compact(sch, from_cursor, from_mem, to_cursor, to_mem) ==
    IF get_addr_value(from_mem, from_cursor) = 0
    THEN [st |-> "ok", mem |-> to_mem, from |-> from_mem]
    ELSE IF type_key(sch, from_cursor) = TK_UTF8String
    THEN String_do_compact(from_cursor, from_mem, to_cursor, to_mem)
    ELSE IF type_key(sch, from_cursor) = TK_Map
    THEN NP_Map_do_compact(sch, from_cursor, from_mem, to_cursor, to_mem)
    ELSE [st |-> "panic", mem |-> to_mem, from |-> from_mem]

\* the callback of do_compact with the key inserted into the source arena
CompactItems_InsertIntoSource(sch, items, from_mem, to_cursor, to_mem) ==
    IF items = << >> THEN [st |-> "ok", mem |-> to_mem, from |-> from_mem]
    ELSE LET new_item == insert(sch, from_mem, to_cursor, items[1].key)
         IN  CompactItems_InsertIntoSource(sch, Tail(items), new_item.mem, to_cursor, to_mem)

\* the callback of do_compact over the items: insert the key into the
\* destination, compact the item into the new item; both results are unwrapped
CompactItems(sch, items, from_mem, to_cursor, to_mem) ==
    IF items = << >> THEN [st |-> "ok", mem |-> to_mem, from |-> from_mem]
    ELSE LET new_item == insert(sch, to_mem, to_cursor, items[1].key)
             copied == compact(sch, items[1].item, from_mem, new_item.cursor, new_item.mem)
         IN  IF new_item.st # "ok"
             THEN [st |-> "panic", mem |-> new_item.mem, from |-> from_mem]
             ELSE IF copied.st # "ok"
             THEN [st |-> "panic", mem |-> copied.mem, from |-> copied.from]
             ELSE CompactItems(sch, Tail(items), copied.from, to_cursor, copied.mem)

\* NP_Map::do_compact that inserts the items last first
NP_Map_do_compact_LastFirst(sch, from_cursor, from_mem, to_cursor, to_mem) ==
    LET last_first(items) == [n \in 1..Len(items) |-> items[Len(items) + 1 - n]]
    IN  IF get_addr_value(from_mem, from_cursor) = 0
        THEN [st |-> "ok", mem |-> to_mem, from |-> from_mem]
        ELSE CompactItems(sch, last_first(for_each(sch, from_mem, from_cursor)),
                          from_mem, to_cursor, to_mem)

NP_Map_do_compact(sch, from_cursor, from_mem, to_cursor, to_mem) ==
    IF get_addr_value(from_mem, from_cursor) = 0
    THEN [st |-> "ok", mem |-> to_mem, from |-> from_mem]
    ELSE CompactItems(sch, for_each(sch, from_mem, from_cursor), from_mem, to_cursor, to_mem)

-----------------------------------------------------------------------------
(* The buffer: the public operations over the root cursor *)

\* set(path, value)
buffer_set(sch, mem, path, T, value, reuse) ==
    LET at(selected) ==
            IF selected.st # "ok" THEN [st |-> selected.st, mem |-> selected.mem]
            ELSE set_here(sch, selected.mem, selected.cursor, T, value, reuse)
    IN  at(select_with_commit(sch, mem, RootCursor, path, 0))

\* get(path)
buffer_get(sch, mem, path, T) ==
    LET value(selected, got) ==
            [st |-> got.st, some |-> got.some, val |-> got.val, mem |-> selected.mem]
        at(selected) ==
            IF selected.st # "ok"
            THEN [st |-> selected.st, some |-> FALSE, val |-> << >>, mem |-> selected.mem]
            ELSE value(selected, get_here(sch, selected.mem, selected.cursor, T))
    IN  at(NP_Cursor_select(sch, mem, RootCursor, path, 0))

\* del(path)
buffer_del(sch, mem, path) ==
    LET deleted(cleared) == [st |-> "ok", flag |-> cleared.flag, mem |-> cleared.mem]
        at(selected) ==
            IF selected.st # "ok"
            THEN [st |-> selected.st, flag |-> FALSE, mem |-> selected.mem]
            ELSE deleted(clear_here(selected.mem, selected.cursor))
    IN  at(NP_Cursor_select(sch, mem, RootCursor, path, 0))

\* compact(): the root is compacted into a fresh arena, which replaces the old
buffer_compact(sch, mem) ==
    compact(sch, RootCursor, mem, RootCursor, NewMemory)

\* calc_bytes()
calc_bytes(sch, mem) ==
    [current_buffer |-> Len(mem), after_compaction |-> calc_size(sch, mem, RootCursor).size]

\* to_json()
buffer_json(sch, mem) == json_encode(sch, mem, RootCursor)

-----------------------------------------------------------------------------
(* The state machine: a buffer of one of the schemas, and its operations *)

NoValue == [some |-> FALSE, val |-> << >>]
SomeValue(v) == [some |-> TRUE, val |-> v]

\* the paths that name a scalar of the schema
LeafPaths(sch) == { p \in SeqsUpTo(Keys, Depth(sch)) : Len(p) = Depth(sch) }

\* the part of a path that select walks: segments past the scalar are ignored
Walked(sch, path) ==
    IF Len(path) > Depth(sch) THEN SubSeq(path, 1, Depth(sch)) ELSE path

IsPrefix(q, p) == Len(q) <= Len(p) /\ SubSeq(p, 1, Len(q)) = q

Range(f) == { f[n] : n \in DOMAIN f }

\* history of the root map: a key not yet in it is inserted by a select
Selected(path) ==
    IF ordered /\ path # << >> /\ path[1] \notin Range(order) /\ Len(path[1]) < 255
    THEN Append(order, path[1]) ELSE order

\* no schema compilation is part of the run: the buffer's schema is given parsed
NoFactory == [stage |-> "none"]

Init ==
    /\ schema \in Schemas
    /\ bytes = NewMemory
    /\ lastSet = [p \in LeafPaths(schema) |-> NoValue]
    /\ setsOnly = TRUE
    /\ clean = TRUE
    /\ order = << >>
    /\ ordered = TRUE
    /\ factory = NoFactory

\* buffer.set(path, value) of a string value
Set(path, value, reuse) ==
    LET leaf == Walked(schema, path)
        \* the value is stored when set returned Ok at a scalar
        stored == /\ Len(path) >= Depth(schema)
                  /\ buffer_set(schema, bytes, path, TK_UTF8String, value, reuse).st = "ok"
    IN  /\ bytes' = buffer_set(schema, bytes, path, TK_UTF8String, value, reuse).mem
        /\ Len(bytes') <= MaxBytes
        /\ lastSet' = IF stored THEN [lastSet EXCEPT ![leaf] = SomeValue(value)] ELSE lastSet
        /\ clean' = (clean /\ ~(stored /\ lastSet[leaf].some))
        /\ order' = Selected(path)
        /\ UNCHANGED << schema, setsOnly, ordered, factory >>

\* buffer.get::<String>(path)
Get(path) ==
    /\ bytes' = buffer_get(schema, bytes, path, TK_UTF8String).mem
    /\ Len(bytes') <= MaxBytes
    /\ order' = Selected(path)
    /\ UNCHANGED << schema, lastSet, setsOnly, clean, ordered, factory >>

\* buffer.del(path)
Del(path) ==
    /\ bytes' = buffer_del(schema, bytes, path).mem
    /\ Len(bytes') <= MaxBytes
    /\ lastSet' = [p \in LeafPaths(schema) |->
                      IF IsPrefix(Walked(schema, path), p) THEN NoValue ELSE lastSet[p]]
    /\ setsOnly' = FALSE
    /\ clean' = FALSE
    /\ order' = IF path = << >> THEN << >> ELSE Selected(path)
    /\ ordered' = (ordered \/ path = << >>)
    /\ UNCHANGED << schema, factory >>

\* buffer.compact()
Compact ==
    LET compacted(r) == IF r.st = "ok" THEN r.mem ELSE bytes
    IN  /\ bytes' = compacted(buffer_compact(schema, bytes))
        /\ setsOnly' = FALSE
        /\ ordered' = (ordered /\ order = << >>)
        /\ order' = << >>
        /\ UNCHANGED << schema, lastSet, clean, factory >>

Next ==
    \/ \E path \in Paths, value \in Vals, reuse \in BOOLEAN : Set(path, value, reuse)
    \/ \E path \in Paths : Get(path)
    \/ \E path \in Paths : Del(path)
    \/ Compact

Spec == Init /\ [][Next]_vars

-----------------------------------------------------------------------------
(* What the claims read off a buffer *)

\* what get::<String>(path) returns on the arena mem
GetResult(mem, path) ==
    LET r == buffer_get(schema, mem, path, TK_UTF8String)
    IN  [st |-> r.st, some |-> r.some, val |-> r.val]

\* what get returns for a leaf: the value set last, or the declared default
\* of the scalar (the last node of the schema) when none is set
Found(value) ==
    IF value.some THEN [st |-> "ok", some |-> TRUE, val |-> value.val]
    ELSE [st |-> "ok", some |-> schema[Len(schema)].default.some,
          val |-> schema[Len(schema)].default.val]

\* the arena compact() leaves
Compacted(mem) == buffer_compact(schema, mem).mem

\* the keys step_iter yields for the map at the cursor, in order
IterKeys(mem, map_cursor) ==
    LET items == for_each(schema, mem, map_cursor)
    IN  [n \in 1..Len(items) |-> items[n].key]

Reverse(q) == [n \in 1..Len(q) |-> q[Len(q) + 1 - n]]

Distinct(q) == \A m, n \in 1..Len(q) : m # n => q[m] # q[n]

\* the cursors of the maps of the buffer: the root, and the items of the
\* root when the values of the root map are maps
MapCursors(mem) ==
    { RootCursor } \cup
    { e.item : e \in { x \in Range(for_each(schema, mem, RootCursor)) :
                          type_key(schema, x.item) = TK_Map } }

-----------------------------------------------------------------------------
(* The claims *)

\* C1: after set calls only (and gets), get(key) returns the value most
\* recently set for that key, for every key that was set, and nothing for a
\* key that was not: a set of one key changes no other key's get.
C1_GetReturnsLastSet ==
    setsOnly => \A p \in LeafPaths(schema) : GetResult(bytes, p) = Found(lastSet[p])

\* C1 witness: a map of strings, both keys set to different values, one of
\* them set a second time, no del and no compact.
C1_Witness ==
    /\ schema = SchemaMapOfString /\ setsOnly /\ ~clean
    /\ \A p \in LeafPaths(schema) : lastSet[p].some
    /\ \E p, q \in LeafPaths(schema) : lastSet[p].val # lastSet[q].val

C3_CompactSizeIsPredicted ==
    /\ Len(Compacted(bytes)) = calc_bytes(schema, bytes).after_compaction
    /\ Len(Compacted(Compacted(bytes))) = Len(Compacted(bytes))

\* C3 witness: a buffer with a set entry, an entry without a value and bytes
\* that compaction drops.
C3_Witness ==
    /\ Len(Compacted(bytes)) < Len(bytes)
    /\ \E p \in LeafPaths(schema) : lastSet[p].some
    /\ \E e \in Range(for_each(schema, bytes, RootCursor)) : get_addr_value(bytes, e.item) = 0

\* C4: after any sequence of set, get and del, after_compaction is at most
\* current_buffer.
C4_AfterCompactionAtMostCurrent ==
    calc_bytes(schema, bytes).after_compaction <= calc_bytes(schema, bytes).current_buffer

\* C4 witness: after a del or an overwrite the buffer holds bytes that
\* compaction would drop.
C4_Witness ==
    /\ ~clean
    /\ calc_bytes(schema, bytes).after_compaction < calc_bytes(schema, bytes).current_buffer

\* C5: with no del and no overwrite of a set value so far, after_compaction
\* equals current_buffer.
C5_NoGarbageWithoutDelOrOverwrite ==
    clean => calc_bytes(schema, bytes).after_compaction
                 = calc_bytes(schema, bytes).current_buffer

\* C5 witness: two values set, nothing deleted or overwritten.
C5_Witness ==
    /\ clean
    /\ Cardinality({ p \in LeafPaths(schema) : lastSet[p].some }) >= 2

\* C6: del of the root followed by compact() gives a buffer of the size of
\* an empty one, from which no earlier entry can be read.
C6_DelRootThenCompactIsEmpty ==
    LET emptied == Compacted(buffer_del(schema, bytes, << >>).mem)
    IN  /\ Len(emptied) = Len(NewMemory)
        /\ \A path \in Paths :
               GetResult(emptied, path).some => GetResult(emptied, path) = Found(NoValue)

\* C6 witness: a map that holds two entries with values.
C6_Witness ==
    /\ Len(for_each(schema, bytes, RootCursor)) >= 2
    /\ Cardinality({ p \in LeafPaths(schema) : lastSet[p].some }) >= 2

\* C7: a map iterates in reverse insertion order: after the keys k1 .. kn
\* were inserted in that order into an empty map, step_iter yields kn .. k1,
\* each once, and then none.
C7_IterationIsReverseInsertion ==
    ordered => IterKeys(bytes, RootCursor) = Reverse(order)

\* C7 witness: two keys were inserted into the empty root map.
C7_Witness == ordered /\ Len(order) = 2 /\ order[1] # order[2]

\* C8: the keys of the items reachable from the head of a map are pairwise
\* distinct.
C8_KeysAreDistinct ==
    \A c \in MapCursors(bytes) : Distinct(IterKeys(bytes, c))

\* C8 witness: a map of two items, one of which was selected again (its
\* value was overwritten) after both were there.
C8_Witness ==
    /\ Len(for_each(schema, bytes, RootCursor)) = 2
    /\ ~clean /\ setsOnly

\* C9: NP_Cursor::select, the read path of get, materializes nothing: for
\* every path, also one that names a key the map does not hold, it returns
\* without an error and the arena is the same after the call as before.
C9_SelectMaterializesNothing ==
    \A path \in Paths :
        LET r == NP_Cursor_select(schema, bytes, RootCursor, path, 0)
        IN  r.st = "ok" /\ r.mem = bytes

\* C10: compaction removes every key whose value is unset: in the compacted
\* buffer every item of every map has a value.
C10_CompactDropsUnsetKeys ==
    \A c \in MapCursors(Compacted(bytes)) :
        \A e \in Range(for_each(schema, Compacted(bytes), c)) :
            get_addr_value(Compacted(bytes), e.item) # 0

-----------------------------------------------------------------------------
(* Typecast and key length *)

\* the type tags get_here::<T> and set_here::<T> are called with
TypeTags == { TK_UTF8String, TK_Map, TK_List }

\* the cursors of the buffer: the root, the items of the root map, and the
\* items of those that are maps
AllCursors(mem) ==
    MapCursors(mem) \cup
    UNION { { e.item : e \in Range(for_each(schema, mem, c)) } : c \in MapCursors(mem) }

\* C11: get_here::<T> and set_here::<T> return a typecast error whenever T's
\* tag differs from the tag of the schema node at the cursor, and then read no
\* value and write no byte; with equal tags (a string at a string cursor)
\* they return no error.
C11_TypecastChecked ==
    \A c \in AllCursors(bytes), T \in TypeTags, value \in Vals, reuse \in BOOLEAN :
        LET got == get_here(schema, bytes, c, T)
            set == set_here(schema, bytes, c, T, value, reuse)
        IN  IF type_key(schema, c) # T
            THEN /\ got.st = "err" /\ ~got.some
                 /\ set.st = "err" /\ set.mem = bytes
            ELSE T = TK_UTF8String => got.st = "ok" /\ set.st = "ok"

\* C11 witness: a string item that holds a value below a map item, so that
\* both a mismatching and a matching tag meet a cursor with bytes behind it.
C11_Witness ==
    /\ schema = SchemaMapOfMapOfString
    /\ \E c \in AllCursors(bytes) :
           type_key(schema, c) = TK_UTF8String /\ get_addr_value(bytes, c) # 0

\* C12: insert, and so a set that has to create the key, returns an error
\* for a key of 255 bytes without allocating a byte or changing the head of
\* the map, and accepts a key of 254 bytes.
C12_LongKeyRejected ==
    /\ \A c \in MapCursors(bytes) :
           LET long == insert(schema, bytes, c, LongKey)
               fits == insert(schema, bytes, c, Key254)
           IN  /\ long.st = "err" /\ long.mem = bytes
               /\ fits.st = "ok" /\ Len(fits.mem) = Len(bytes) + 6 + 1 + 254
               /\ get_key(fits.mem, fits.cursor) = Key254
    /\ \A value \in Vals :
           LET set == buffer_set(schema, bytes, << LongKey >>, TK_UTF8String, value, FALSE)
           IN  set.st = "err" /\ set.mem = bytes

\* C12 witness: a map that holds two items, the head among them, when the
\* long key is offered.
C12_Witness ==
    /\ Len(for_each(schema, bytes, RootCursor)) = 2
    /\ insert(schema, bytes, RootCursor, LongKey).st = "err"

-----------------------------------------------------------------------------
(* Failures and frames of compaction *)

\* an arena as it arrives from outside the library: the root map holds one
\* item without a value whose key record says 255 bytes
ForeignArena == << 0, 3, 0, 0, 0, 0, 0, 9, 255 >> \o LongKey

C14_CompactLeavesSource ==
    LET r == buffer_compact(schema, bytes)
    IN  r.st = "ok" /\ r.from = bytes /\ Len(r.from) = Len(bytes)

\* C14 witness: a source that holds two values and bytes compaction drops,
\* so that the destination differs from the source.
C14_Witness ==
    /\ Cardinality({ p \in LeafPaths(schema) : lastSet[p].some }) >= 2
    /\ buffer_compact(schema, bytes).mem # bytes

-----------------------------------------------------------------------------
(* Defaults and the select of a map *)

\* the cursors of the strings of the buffer, and a virtual one
StringCursors(mem) ==
    { c \in AllCursors(mem) : type_key(schema, c) = TK_UTF8String }
    \cup { NP_Cursor_new(0, Len(schema) - 1, Len(schema) - 2) }

\* C19: get_here::<T> at a cursor of type T whose value is unset returns the
\* default the schema declares, none when it declares none, and never an
\* error.
C19_UnsetGivesDefault ==
    \A c \in StringCursors(bytes) :
        get_addr_value(bytes, c) = 0 =>
            LET got == get_here(schema, bytes, c, TK_UTF8String)
                declared == schema[Len(schema)].default
            IN  /\ got.st = "ok"
                /\ got.some = declared.some
                /\ declared.some => got.val = declared.val

\* C19 witness: a schema with a declared default and an item of the map
\* whose value was cleared or never set.
C19_Witness ==
    /\ schema = SchemaMapOfStringDefault
    /\ \E c \in AllCursors(bytes) : c # RootCursor /\ get_addr_value(bytes, c) = 0

\* C20: select with schema_only = false returns, allocating nothing, the
\* item nearest the head that has the key; when no item has it, exactly one
\* item with the key is inserted at the head, its next the old head, and
\* returned.
C20_SelectFindsOrInserts ==
    \A c \in MapCursors(bytes), key \in Keys :
        LET items == for_each(schema, bytes, c)
            hits == { n \in 1..Len(items) : items[n].key = key }
            r == NP_Map_select(schema, bytes, c, key, FALSE)
        IN  IF hits # {}
            THEN /\ r.st = "ok" /\ r.mem = bytes
                 /\ r.cursor = items[CHOOSE n \in hits : \A m \in hits : n <= m].item
            ELSE /\ r.st = "ok"
                 /\ Len(r.mem) = Len(bytes) + 6 + 1 + Len(key)
                 /\ \A n \in 1..Len(bytes) :
                        n \notin { c.buff_addr, c.buff_addr + 1 } => r.mem[n] = bytes[n]
                 /\ r.cursor.buff_addr = Len(bytes) + 1
                 /\ get_addr_value(r.mem, c) = r.cursor.buff_addr
                 /\ get_next_addr(r.mem, r.cursor) = get_addr_value(bytes, c)
                 /\ for_each(schema, r.mem, c) = << [key |-> key, item |-> r.cursor] >> \o items

\* C20 witness: a map of one item whose value was overwritten: its key is
\* found and its cell was reused, the other key is missing and would be
\* inserted.
C20_Witness ==
    /\ Len(for_each(schema, bytes, RootCursor)) = 1
    /\ ~clean /\ setsOnly

-----------------------------------------------------------------------------
(* Schema JSON.  A JSON object keeps its members in the order they were    *)
(* inserted (JSMAP), and stringify writes them in that order, so here an   *)
(* object is the sequence of its members.                                  *)

NP_JSON_Null == [t |-> "null", s |-> "", m |-> << >>]
NP_JSON_String(str) == [t |-> "string", s |-> str, m |-> << >>]
NP_JSON_Dictionary(members) == [t |-> "dictionary", s |-> "", m |-> members]
Member(key, value) == [k |-> key, v |-> value]

\* JSMAP::new()
JSMAP_new == << >>

\* JSMAP::insert(key, value) with the member order kept: replaces the member of that name, else appends
schema_json_insert(map, key, value) ==
    IF \E n \in 1..Len(map) : map[n].k = key
    THEN [n \in 1..Len(map) |-> IF map[n].k = key THEN Member(key, value) ELSE map[n]]
    ELSE Append(map, Member(key, value))

\* json[key]: the member of that name, Null when there is none or json is no object
JSON_index(json, key) ==
    IF json.t = "dictionary" /\ \E n \in 1..Len(json.m) : json.m[n].k = key
    THEN json.m[CHOOSE n \in 1..Len(json.m) :
                    /\ json.m[n].k = key
                    /\ \A k \in 1..(n - 1) : json.m[k].k # key].v
    ELSE NP_JSON_Null

\* NP_JSON::stringify: the text as its sequence of tokens
RECURSIVE stringify(_)
RECURSIVE stringify_members(_)
stringify(json) ==
    CASE json.t = "null" -> << "null" >>
      [] json.t = "string" -> << "\"", json.s, "\"" >>
      [] json.t = "dictionary" -> << "{" >> \o stringify_members(json.m) \o << "}" >>

stringify_members(members) ==
    IF members = << >> THEN << >>
    ELSE << "\"", members[1].k, "\"", ":" >> \o stringify(members[1].v)
         \o (IF Len(members) > 1 THEN << "," >> ELSE << >>)
         \o stringify_members(Tail(members))

\* the deepest nesting of maps in the schemas given to the factory
MaxSchemaDepth == 2

StringJson == NP_JSON_Dictionary(<< Member("type", NP_JSON_String("string")) >>)
MapJson(value) ==
    NP_JSON_Dictionary(<< Member("type", NP_JSON_String("map")), Member("value", value) >>)

\* the schemas without a nested schema: a string, a string with a property
\* that is not part of the schema, no type, a type that is no string, an
\* unknown type name, a map without value
LeafJsons ==
    { StringJson,
      NP_JSON_Dictionary(<< Member("type", NP_JSON_String("string")),
                            Member("note", NP_JSON_String("x")) >>),
      NP_JSON_Dictionary(<< >>),
      NP_JSON_Dictionary(<< Member("type", NP_JSON_Dictionary(<< >>)) >>),
      NP_JSON_Dictionary(<< Member("type", NP_JSON_String("frog")) >>),
      NP_JSON_Dictionary(<< Member("type", NP_JSON_String("map")) >>) }

\* the schemas around a nested one: a map, a map written value first, a map
\* whose value is no object, an object with a value and no type
WrapJsons(values) ==
    { MapJson(value) : value \in values }
    \cup { NP_JSON_Dictionary(<< Member("value", value),
                                 Member("type", NP_JSON_String("map")) >>) : value \in values }
    \cup { NP_JSON_Dictionary(<< Member("value", value) >>) : value \in values }

RECURSIVE JsonsOfDepth(_)
JsonsOfDepth(n) == IF n = 0 THEN LeafJsons ELSE WrapJsons(JsonsOfDepth(n - 1))

SchemaJsons ==
    UNION { JsonsOfDepth(n) : n \in 0..MaxSchemaDepth }
    \cup { MapJson(NP_JSON_String("string")) }

-----------------------------------------------------------------------------
(* Schema parsing *)

SchemaErr == [st |-> "err", bytes |-> << >>, schema |-> << >>]

\* type_idx().0 of the two types
String_type_idx == "string"
NP_Map_type_idx == "map"

\* NP_Schema::_get_type
get_type(json_schema) ==
    IF JSON_index(json_schema, "type").t = "string"
    THEN [st |-> "ok", val |-> JSON_index(json_schema, "type").s]
    ELSE [st |-> "err", val |-> ""]

\* String::from_json_to_schema with neither size nor default declared: the tag,
\* then a zero size and a zero default length
String_schema_bytes == << TK_UTF8String, 0, 0, 0 >>

String_from_json_to_schema(sch, json_schema) ==
    [st |-> "ok", bytes |-> String_schema_bytes, schema |-> Append(sch, StringNode)]

RECURSIVE NP_Schema_from_json(_, _)
RECURSIVE NP_Map_from_json_to_schema(_, _)

\* NP_Map::from_json_to_schema
NP_Map_from_json_to_schema(sch, json_schema) ==
    LET schema_data == << TK_Map >>
        value_addr == Len(sch)
        pushed == Append(sch, MapNode(value_addr + 1))
        child == NP_Schema_from_json(pushed, JSON_index(json_schema, "value"))
    IN  IF JSON_index(json_schema, "value") = NP_JSON_Null THEN SchemaErr
        ELSE IF child.st = "err" THEN SchemaErr
        ELSE [st |-> "ok", bytes |-> schema_data \o child.bytes, schema |-> child.schema]

\* the mutant of NP_Schema::from_json that takes an unknown type for a string
NP_Schema_from_json_AnyType(sch, json_schema) ==
    LET type == get_type(json_schema)
    IN  IF type.st = "err" THEN SchemaErr
        ELSE IF type.val = NP_Map_type_idx THEN NP_Map_from_json_to_schema(sch, json_schema)
        ELSE String_from_json_to_schema(sch, json_schema)

\* NP_Schema::from_json: each type takes the schema whose type is its name;
\* a schema no type takes is an error
NP_Schema_from_json(sch, json_schema) ==
    LET type == get_type(json_schema)
    IN  IF type.st = "err" THEN SchemaErr
        ELSE IF type.val = String_type_idx THEN String_from_json_to_schema(sch, json_schema)
        ELSE IF type.val = NP_Map_type_idx THEN NP_Map_from_json_to_schema(sch, json_schema)
        ELSE SchemaErr

RECURSIVE type_to_json(_, _)

\* String::schema_to_json with neither size nor default declared
String_schema_to_json(sch, address) ==
    NP_JSON_Dictionary(schema_json_insert(JSMAP_new, "type", NP_JSON_String(String_type_idx)))

\* the mutant of NP_Map::schema_to_json that writes the value schema first
NP_Map_schema_to_json_ValueFirst(sch, address) ==
    LET value_address == sch[address + 1].value
        with_value == schema_json_insert(JSMAP_new, "value", type_to_json(sch, value_address))
    IN  NP_JSON_Dictionary(schema_json_insert(with_value, "type", NP_JSON_String(NP_Map_type_idx)))

\* NP_Map::schema_to_json
NP_Map_schema_to_json(sch, address) ==
    LET schema_json == schema_json_insert(JSMAP_new, "type", NP_JSON_String(NP_Map_type_idx))
        value_address == sch[address + 1].value
    IN  NP_JSON_Dictionary(schema_json_insert(schema_json, "value", type_to_json(sch, value_address)))

\* NP_Schema::_type_to_json
type_to_json(sch, address) ==
    IF sch[address + 1].i = TK_Map THEN NP_Map_schema_to_json(sch, address)
    ELSE String_schema_to_json(sch, address)

\* NP_Schema::to_json
NP_Schema_to_json(sch) == type_to_json(sch, 0)

RECURSIVE NP_Schema_from_bytes(_, _, _)

\* String::from_bytes_to_schema
String_from_bytes_to_schema(sch, address, schema_bytes) == Append(sch, StringNode)

\* the mutant of NP_Map::from_bytes_to_schema that points the map at itself
NP_Map_from_bytes_to_schema_SelfValue(sch, address, schema_bytes) ==
    LET of_addr == Len(sch)
    IN  NP_Schema_from_bytes(Append(sch, MapNode(of_addr)), address + 1, schema_bytes)

\* NP_Map::from_bytes_to_schema
NP_Map_from_bytes_to_schema(sch, address, schema_bytes) ==
    LET of_addr == Len(sch)
    IN  NP_Schema_from_bytes(Append(sch, MapNode(of_addr + 1)), address + 1, schema_bytes)

\* NP_Schema::from_bytes; address counts the bytes from 0
NP_Schema_from_bytes(sch, address, schema_bytes) ==
    LET this_type == schema_bytes[address + 1]
    IN  IF this_type = TK_Map THEN NP_Map_from_bytes_to_schema(sch, address, schema_bytes)
        ELSE String_from_bytes_to_schema(sch, address, schema_bytes)

-----------------------------------------------------------------------------
(* The factory: a schema is given as JSON, compiled, and then written back *)
(* as JSON, read back from its bytes, or used for a new buffer.            *)

NotCompiled == [st |-> "none", bytes |-> << >>, schema |-> << >>]
NotEmitted == [done |-> FALSE, json |-> NP_JSON_Null]
NotReparsed == [done |-> FALSE, schema |-> << >>]

SchemaInit ==
    /\ \E json \in SchemaJsons :
           factory = [stage |-> "given", json |-> json, compiled |-> NotCompiled,
                      emitted |-> NotEmitted, reparsed |-> NotReparsed]
    /\ schema = << >>
    /\ bytes = << >>
    /\ lastSet = << >>
    /\ setsOnly = TRUE
    /\ clean = TRUE
    /\ order = << >>
    /\ ordered = TRUE

\* NP_Factory::new(json): compiles the schema
FactoryNew ==
    /\ factory.stage = "given"
    /\ factory' = [factory EXCEPT !.stage = "compiled",
                                  !.compiled = NP_Schema_from_json(<< >>, factory.json)]
    /\ UNCHANGED << schema, bytes, lastSet, setsOnly, clean, order, ordered >>

\* factory.schema.to_json()
SchemaToJson ==
    /\ factory.stage = "compiled"
    /\ factory.compiled.st = "ok"
    /\ ~factory.emitted.done
    /\ factory' = [factory EXCEPT !.emitted =
                       [done |-> TRUE, json |-> NP_Schema_to_json(factory.compiled.schema)]]
    /\ UNCHANGED << schema, bytes, lastSet, setsOnly, clean, order, ordered >>

\* NP_Factory::new_compiled(factory.compile_schema())
SchemaFromBytes ==
    /\ factory.stage = "compiled"
    /\ factory.compiled.st = "ok"
    /\ ~factory.reparsed.done
    /\ factory' = [factory EXCEPT !.reparsed =
                       [done |-> TRUE,
                        schema |-> NP_Schema_from_bytes(<< >>, 0, factory.compiled.bytes)]]
    /\ UNCHANGED << schema, bytes, lastSet, setsOnly, clean, order, ordered >>

\* factory.empty_buffer(): there is a factory only when new returned Ok
EmptyBuffer ==
    /\ factory.stage = "compiled"
    /\ factory.compiled.st = "ok"
    /\ schema = << >>
    /\ schema' = factory.compiled.schema
    /\ bytes' = NewMemory
    /\ UNCHANGED << factory, lastSet, setsOnly, clean, order, ordered >>

SchemaNext ==
    \/ FactoryNew
    \/ SchemaToJson
    \/ SchemaFromBytes
    \/ EmptyBuffer

SchemaSpec == SchemaInit /\ [][SchemaNext]_vars

-----------------------------------------------------------------------------
(* Schema round trips *)

\* the canonical writing of a schema JSON: "type" first, for a map "value"
\* next, no other member
RECURSIVE Canonical(_)
Canonical(json) ==
    IF JSON_index(json, "type") = NP_JSON_String("map")
    THEN NP_JSON_Dictionary(<< Member("type", NP_JSON_String("map")),
                               Member("value", Canonical(JSON_index(json, "value"))) >>)
    ELSE NP_JSON_Dictionary(<< Member("type", JSON_index(json, "type")) >>)

\* C15 as stated: for every accepted schema S the schema written back as JSON
\* stringifies to the text of S.
C15_RoundTripIsIdentity ==
    factory.emitted.done => stringify(factory.emitted.json) = stringify(factory.json)

\* C15, amended: the schema written back as JSON is the canonical writing of
\* S, at any nesting depth of maps a map is written as "type":"map" followed
\* by "value", parsing it again gives the same bytes and parsed schema, and
\* its text is the text of S whenever S is written canonically.
C15_RoundTripIsCanonical ==
    factory.emitted.done =>
        /\ factory.emitted.json = Canonical(factory.json)
        /\ NP_Schema_from_json(<< >>, factory.emitted.json) = factory.compiled
        /\ factory.json = Canonical(factory.json)
               => stringify(factory.emitted.json) = stringify(factory.json)
        /\ factory.compiled.schema[1].i = TK_Map =>
               /\ Len(factory.emitted.json.m) = 2
               /\ factory.emitted.json.m[1] = Member("type", NP_JSON_String("map"))
               /\ factory.emitted.json.m[2].k = "value"
               /\ factory.emitted.json.m[2].v =
                      NP_Schema_to_json(NP_Schema_from_json(<< >>,
                                            JSON_index(factory.json, "value")).schema)

\* a map of maps of strings written canonically went through the round trip
C15_Witness ==
    /\ factory.emitted.done
    /\ factory.json = MapJson(MapJson(StringJson))
    /\ stringify(factory.emitted.json)
           = << "{", "\"", "type", "\"", ":", "\"", "map", "\"", ",",
                "\"", "value", "\"", ":",
                "{", "\"", "type", "\"", ":", "\"", "map", "\"", ",",
                "\"", "value", "\"", ":",
                "{", "\"", "type", "\"", ":", "\"", "string", "\"", "}", "}", "}" >>

\* C16: reading the compiled bytes back gives the parsed schema from_json
\* built; the bytes of a map are the tag 22 and then exactly the bytes of its
\* value schema; every map node, parsed or read back, has its value at its
\* own index plus one.
C16_BytesRoundTrip ==
    factory.reparsed.done =>
        /\ factory.reparsed.schema = factory.compiled.schema
        /\ factory.compiled.schema[1].i = TK_Map =>
               factory.compiled.bytes =
                   << 22 >> \o NP_Schema_from_json(<< >>,
                                   JSON_index(factory.json, "value")).bytes
        /\ \A n \in 1..Len(factory.compiled.schema) :
               factory.compiled.schema[n].i = TK_Map
                   => factory.compiled.schema[n].value = (n - 1) + 1
        /\ \A n \in 1..Len(factory.reparsed.schema) :
               factory.reparsed.schema[n].i = TK_Map
                   => factory.reparsed.schema[n].value = (n - 1) + 1

\* the bytes of a map of maps of strings were read back
C16_Witness ==
    /\ factory.reparsed.done
    /\ factory.compiled.bytes = << 22, 22 >> \o String_schema_bytes
    /\ factory.reparsed.schema = SchemaMapOfMapOfString

\* the type names the parser knows
RecognizedTypes == { String_type_idx, NP_Map_type_idx }

\* a schema JSON is valid: it has a type, the type is a known name, a map has
\* a value, and the value is a valid schema
RECURSIVE ValidSchema(_)
ValidSchema(json) ==
    /\ json.t = "dictionary"
    /\ \E n \in 1..Len(json.m) : json.m[n].k = "type"
    /\ JSON_index(json, "type").t = "string"
    /\ JSON_index(json, "type").s \in RecognizedTypes
    /\ JSON_index(json, "type").s = "map" =>
           /\ \E n \in 1..Len(json.m) : json.m[n].k = "value"
           /\ ValidSchema(JSON_index(json, "value"))

\* C17: from_json of a schema that is invalid, at the top or nested, returns an
\* error with no parsed schema and no bytes, and a buffer is only ever built
\* from a valid schema.
C17_InvalidSchemaRejected ==
    /\ factory.stage = "compiled" /\ ~ValidSchema(factory.json)
           => /\ factory.compiled.st = "err"
              /\ factory.compiled.schema = << >>
              /\ factory.compiled.bytes = << >>
    /\ schema # << >> => ValidSchema(factory.json) /\ schema = factory.compiled.schema

\* a map of maps whose inner map has no value was rejected
C17_Witness ==
    /\ factory.stage = "compiled"
    /\ factory.json = MapJson(MapJson(NP_JSON_Dictionary(
                          << Member("type", NP_JSON_String("map")) >>)))
    /\ factory.compiled.st = "err"

-----------------------------------------------------------------------------
(* Buffers addressed by index: a list, a tuple, a list of tuples.  The     *)
(* segments are "0", "1", "2", "+1", "255", "256", "65535", "65536", "",   *)
(* "a", "1a", "-1", "+".                                                   *)

Segments ==
    { << 48 >>, << 49 >>, << 50 >>, << 43, 49 >>, << 50, 53, 53 >>, << 50, 53, 54 >>,
      << 54, 53, 53, 51, 53 >>, << 54, 53, 53, 51, 54 >>, << >>,
      << 97 >>, << 49, 97 >>, << 45, 49 >>, << 43 >> }

SegmentPaths == SeqsUpTo(Segments, MaxPathLen)

PathInit ==
    /\ schema \in IndexedSchemas
    /\ bytes = NewMemory
    /\ lastSet = << >>
    /\ setsOnly = TRUE
    /\ clean = TRUE
    /\ order = << >>
    /\ ordered = TRUE
    /\ factory = NoFactory

\* NP_Cursor::select from the root, as a read does it
Select(path) ==
    /\ bytes' = NP_Cursor_select(schema, bytes, RootCursor, path, 0).mem
    /\ Len(bytes') <= MaxBytes
    /\ UNCHANGED << schema, lastSet, setsOnly, clean, order, ordered, factory >>

\* NP_Cursor::select_with_commit from the root, as a write does it
SelectWithCommit(path) ==
    /\ bytes' = select_with_commit(schema, bytes, RootCursor, path, 0).mem
    /\ Len(bytes') <= MaxBytes
    /\ UNCHANGED << schema, lastSet, setsOnly, clean, order, ordered, factory >>

PathNext ==
    \/ \E path \in SegmentPaths : Select(path)
    \/ \E path \in SegmentPaths : SelectWithCommit(path)

PathSpec == PathInit /\ [][PathNext]_vars

\* the number a segment denotes in decimal, -1 when it is no decimal number:
\* digits only, after at most one '+'
RECURSIVE DecimalValue(_)
DecimalValue(digits) ==
    IF digits = << >> THEN 0
    ELSE DecimalValue(SubSeq(digits, 1, Len(digits) - 1)) * 10 + (digits[Len(digits)] - 48)

Denoted(segment) ==
    LET digits == IF segment # << >> /\ segment[1] = 43 THEN Tail(segment) ELSE segment
    IN  IF digits # << >> /\ \A n \in 1..Len(digits) : digits[n] \in 48..57
        THEN DecimalValue(digits) ELSE -1

\* the segment is no index of a collection of that type
BadIndex(type, segment) ==
    \/ type = TK_List /\ Denoted(segment) \notin 0..65535
    \/ type = TK_Tuple /\ Denoted(segment) \notin 0..255

\* C18: when the path before its last segment selects a list or a tuple and the
\* last segment is no decimal integer in the range of that collection, select
\* and select_with_commit return an error and leave the arena as the path
\* before the segment left it: nothing is selected or committed for the segment.
C18_BadIndexIsPathError ==
    \A path \in SegmentPaths \ { << >> } :
        LET before == SubSeq(path, 1, Len(path) - 1)
            read == NP_Cursor_select(schema, bytes, RootCursor, before, 0)
            write == select_with_commit(schema, bytes, RootCursor, before, 0)
        IN  /\ read.st = "ok" /\ BadIndex(type_key(schema, read.cursor), path[Len(path)])
                => /\ NP_Cursor_select(schema, bytes, RootCursor, path, 0).st = "err"
                   /\ NP_Cursor_select(schema, bytes, RootCursor, path, 0).mem = read.mem
            /\ write.st = "ok" /\ BadIndex(type_key(schema, write.cursor), path[Len(path)])
                => /\ select_with_commit(schema, bytes, RootCursor, path, 0).st = "err"
                   /\ select_with_commit(schema, bytes, RootCursor, path, 0).mem = write.mem

\* a list of tuples holds an item, and "65536" for the list, "256" for the
\* tuple of the item "1" and "a" for either are refused
C18_Witness ==
    /\ schema = SchemaListOfTuples
    /\ get_addr_value(bytes, RootCursor) # 0
    /\ select_with_commit(schema, bytes, RootCursor, << << 54, 53, 53, 51, 54 >> >>, 0).st = "err"
    /\ select_with_commit(schema, bytes, RootCursor, << << 49 >>, << 50, 53, 54 >> >>, 0).st = "err"
    /\ NP_Cursor_select(schema, bytes, RootCursor, << << 49 >>, << 97 >> >>, 0).st = "err"
    /\ NP_Cursor_select(schema, bytes, RootCursor, << << 97 >> >>, 0).st = "err"

-----------------------------------------------------------------------------
(* Clearing a value *)

\* a cursor that was never given a cell
VirtualCursor == NP_Cursor_new(0, 1, 0)

\* C21: clear_here returns true exactly when the cursor is not virtual and the
\* value address in its cell is not 0; afterwards that value address is 0, the
\* arena has the length it had and no byte outside the two bytes of the value
\* address has changed; a second clear_here of the cell returns false and
\* changes nothing.
C21_ClearHereFrame ==
    \A c \in AllCursors(bytes) \cup { VirtualCursor } :
        LET cleared == clear_here(bytes, c)
            again == clear_here(cleared.mem, c)
        IN  /\ cleared.flag = (c.buff_addr # 0 /\ read_address(bytes, c.buff_addr) # 0)
            /\ Len(cleared.mem) = Len(bytes)
            /\ c.buff_addr # 0 => read_address(cleared.mem, c.buff_addr) = 0
            /\ \A n \in 1..Len(bytes) :
                   n \notin { c.buff_addr, c.buff_addr + 1 } => cleared.mem[n] = bytes[n]
            /\ ~again.flag
            /\ again.mem = cleared.mem

\* an item of the root map holds a value and clear_here clears it, while
\* another item holds none
C21_Witness ==
    /\ \E c \in AllCursors(bytes) :
           c # RootCursor /\ get_addr_value(bytes, c) # 0 /\ clear_here(bytes, c).flag
    /\ \E c \in AllCursors(bytes) :
           get_addr_value(bytes, c) = 0 /\ ~clear_here(bytes, c).flag

-----------------------------------------------------------------------------
(* A set that fails *)

\* C22: when set(path, value) returns an error, a typecast error at the cursor
\* the path ends at or a path error at a later segment, the arena is byte for
\* byte the one before the call.
C22_FailedSetLeavesBuffer ==
    \A path \in Paths, value \in Vals :
        LET set == buffer_set(schema, bytes, path, TK_UTF8String, value, FALSE)
        IN  set.st # "ok" => set.mem = bytes

-----------------------------------------------------------------------------
(* The shape of the maps in the arena *)

\* the addresses of the item cells step_iter reaches from the head of a map
ItemsOf(mem, map_cursor) ==
    { e.item.buff_addr : e \in Range(for_each(schema, mem, map_cursor)) }

\* the cursors of all maps of the buffer, and the item cells of all of them
AllMaps(mem) == { c \in AllCursors(mem) : type_key(schema, c) = TK_Map }
AllItems(mem) == UNION { ItemsOf(mem, m) : m \in AllMaps(mem) }

\* the bytes of an item cell, and of the key record an item cell points at
CellBytes(item_addr) == item_addr..(item_addr + 5)
KeyRecord(mem, item_addr) ==
    LET key_addr == read_address(mem, item_addr + 4)
    IN  key_addr..(key_addr + mem[key_addr])

\* C23: in every buffer the operations build, every item reachable from the
\* head of a map lies inside the arena, has a key address that is not 0 and
\* points at a length byte followed by that many bytes inside the arena, and
\* has a next address that is 0 or another item of the same map; no item cell
\* shares a byte with a key record or with another item cell.
C23_MapItemsWellFormed ==
    /\ \A m \in AllMaps(bytes) :
           \A a \in ItemsOf(bytes, m) :
               /\ a >= 1 /\ a + 5 <= Len(bytes)
               /\ read_address(bytes, a + 4) \in 1..Len(bytes)
               /\ \A n \in KeyRecord(bytes, a) : n \in 1..Len(bytes)
               /\ read_address(bytes, a + 2) \in ({ 0 } \cup ItemsOf(bytes, m)) \ { a }
    /\ \A a, b \in AllItems(bytes) :
           /\ CellBytes(a) \cap KeyRecord(bytes, b) = {}
           /\ a # b => CellBytes(a) \cap CellBytes(b) = {}

\* a map in a map, both with items, after a del or a compact
C23_Witness ==
    /\ schema = SchemaMapOfMapOfString
    /\ ~setsOnly /\ ~clean
    /\ \E m \in AllMaps(bytes) : m # RootCursor /\ ItemsOf(bytes, m) # {}

\* the addresses of the items of a map in the order step_iter yields them
WalkOf(mem, map_cursor) ==
    LET walk == for_each(schema, mem, map_cursor)
    IN  [n \in 1..Len(walk) |-> walk[n].item.buff_addr]

\* C24: the chain of every map is acyclic: the next address of an item is 0 or
\* an address below the item's own, so step_iter yields each item once, each
\* one the next of the one before, and returns none after the item whose next
\* is 0.
C24_IterationTerminates ==
    \A m \in AllMaps(bytes) :
        LET walk == WalkOf(bytes, m)
        IN  /\ \A n \in 1..Len(walk) :
                   /\ read_address(bytes, walk[n] + 2) < walk[n]
                   /\ read_address(bytes, walk[n] + 2)
                          = IF n < Len(walk) THEN walk[n + 1] ELSE 0
            /\ Distinct(walk)
            /\ Len(walk) = Cardinality(ItemsOf(bytes, m))
            /\ ~step_iter(schema, bytes,
                          [head |-> read_address(bytes, m.buff_addr),
                           current |-> IF walk = << >> THEN 0 ELSE walk[Len(walk)],
                           map |-> m]).some

\* a map of two items that a compaction has built
C24_Witness ==
    /\ ~ordered
    /\ Len(WalkOf(bytes, RootCursor)) = 2

-----------------------------------------------------------------------------
(* The order of a compacted map *)

\* the keys of a map in the order step_iter yields them
KeysOf(mem, map_cursor) ==
    LET walk == for_each(schema, mem, map_cursor)
    IN  [n \in 1..Len(walk) |-> walk[n].key]

-----------------------------------------------------------------------------
(* set_default *)

\* C26: set_default on a string cursor writes the default the schema declares
\* when it declares one and the empty string otherwise; on a map cursor it
\* changes nothing.
C26_SetDefaultWritesDeclared ==
    \A c \in AllCursors(bytes), reuse \in BOOLEAN :
        LET r == set_default(schema, bytes, c, reuse)
        IN  /\ r.st = "ok"
            /\ type_key(schema, c) = TK_Map => r.mem = bytes
            /\ type_key(schema, c) = TK_UTF8String =>
                   String_into_value(r.mem, c).val =
                       IF SchemaAt(schema, c.schema_addr).default.some
                       THEN SchemaAt(schema, c.schema_addr).default.val
                       ELSE String_default

-----------------------------------------------------------------------------
(* A path that runs past a scalar *)

-----------------------------------------------------------------------------
(* Where a map keeps its head *)

\* C28 as stated: the pointer cell of a map with items holds the address of a
\* 2 byte header, and the header holds the address of the head item.
C28_MapHasHeader ==
    \A m \in AllMaps(bytes) :
        ItemsOf(bytes, m) # {} =>
            LET header == read_address(bytes, m.buff_addr)
            IN  /\ header \notin ItemsOf(bytes, m)
                /\ read_address(bytes, header) = WalkOf(bytes, m)[1]

\* C28, amended: a map has no header of its own.  The value address in the
\* pointer cell of the map is the address of the head item's cell, 0 when the
\* map has no item: it is the cell of the key inserted last, it is one of the
\* items of the map and the next of none, and what the cell of the head
\* holds is the head item's own value address, not an item of the map.
C28_HeadInPointerCell ==
    /\ ordered /\ order # << >> =>
           LET head == read_address(bytes, ROOT_PTR_ADDR)
           IN  /\ head # 0
               /\ get_key(bytes, NP_Cursor_new(head, value_of(schema, RootCursor), 0))
                      = order[Len(order)]
    /\ \A m \in AllMaps(bytes) :
           LET head == read_address(bytes, m.buff_addr)
           IN  IF head = 0 THEN ItemsOf(bytes, m) = {}
               ELSE /\ head \in ItemsOf(bytes, m)
                    /\ head = WalkOf(bytes, m)[1]
                    /\ \A a \in ItemsOf(bytes, m) : read_address(bytes, a + 2) # head
                    /\ read_address(bytes, head) \notin ItemsOf(bytes, m)

\* a map in a map, each with its head in the pointer cell of the map
C28_Witness ==
    /\ schema = SchemaMapOfMapOfString
    /\ ordered /\ Len(order) = 1
    /\ \E m \in AllMaps(bytes) :
           /\ m # RootCursor
           /\ read_address(bytes, m.buff_addr) # 0
           /\ read_address(bytes, read_address(bytes, m.buff_addr)) # 0


-----------------------------------------------------------------------------
(* C29: the sizes of a map of strings *)

\* the keys and values of the size test of the map (map.rs 325-340)
Key_name == << 110, 97, 109, 101 >>
Key_name2 == Key_name \o << 50 >>
Val_hello_world == << 104, 101, 108, 108, 111, 44, 32, 119, 111, 114, 108, 100 >>
Val_hello_world2 == Val_hello_world \o << 50 >>

\* the bytes one entry of a map of strings takes: the item cell, the key
\* record and the string record
EntrySize(key, value) == PTR_SIZE_MAP_ITEM + 1 + Len(key) + 2 + Len(value)

\* the keys the root map holds
RootKeys == { KeysOf(bytes, RootCursor)[i] : i \in 1..Len(KeysOf(bytes, RootCursor)) }

\* the buffer of the size test after its first and after its second set
OneEntry ==
    buffer_set(SchemaMapOfString, NewMemory, << Key_name >>, TK_UTF8String,
               Val_hello_world, FALSE).mem
TwoEntries ==
    buffer_set(SchemaMapOfString, OneEntry, << Key_name2 >>, TK_UTF8String,
               Val_hello_world2, FALSE).mem

\* each set of a key the map does not hold grows the buffer by the size of
\* the entry, and the size test's buffers are 27 and 54 bytes long
SetGrowsByEntry ==
    /\ Depth(schema) = 1 =>
         \A key \in Keys \ RootKeys, value \in Vals, reuse \in BOOLEAN :
            LET set == buffer_set(schema, bytes, << key >>, TK_UTF8String, value, reuse)
            IN  /\ set.st = "ok"
                /\ Len(set.mem) = Len(bytes) + EntrySize(key, value)
    /\ Len(NewMemory) = 2
    /\ Len(OneEntry) = 27
    /\ Len(TwoEntries) = 54
    /\ buffer_get(SchemaMapOfString, OneEntry, << Key_name >>, TK_UTF8String).mem = OneEntry
    /\ buffer_get(SchemaMapOfString, TwoEntries, << Key_name >>, TK_UTF8String).mem = TwoEntries
    /\ buffer_get(SchemaMapOfString, TwoEntries, << Key_name2 >>, TK_UTF8String).mem = TwoEntries

\* C29: in a map of strings every set of a key not yet present grows the
\* buffer by 6 + 1 + len(key) + 2 + len(value) bytes, and every get grows it
\* by 0
C29_GetGrowsByZero ==
    /\ SetGrowsByEntry
    /\ Depth(schema) = 1 =>
         \A key \in Keys :
            Len(buffer_get(schema, bytes, << key >>, TK_UTF8String).mem) = Len(bytes)


-----------------------------------------------------------------------------
(* C30: a byte converted to a type key *)

\* enum NP_TypeKeys: the ordinals of the declared variants, None to Tuple
DeclaredTypeKeys == 0 .. TK_Tuple

\* the largest byte the conversion lets through
TYPE_KEY_CHECK == 25

Panicked == [st |-> "panic", key |-> 0]

\* From<u8> for NP_TypeKeys: the outcomes of the conversion. A byte above the
\* check panics and a declared ordinal is transmuted to its variant; a byte
\* the check lets through that is no declared ordinal is transmuted all the
\* same, which has no defined outcome: it may trap, or go on as any key
NP_TypeKeys_from(value) ==
    IF value > TYPE_KEY_CHECK THEN { Panicked }
    ELSE IF value \in DeclaredTypeKeys THEN { [st |-> "ok", key |-> value] }
    ELSE { Panicked } \cup { [st |-> "ok", key |-> key] : key \in 0 .. U8_MAX }

\* C30: NP_TypeKeys::from(v) is the variant of ordinal v for v <= 24 and a
\* panic for every other byte, the bytes of a buffer included; no byte
\* becomes a type key outside the declared variants
C30_TypeKeyFromByte ==
    \A value \in (0 .. U8_MAX) \cup { bytes[i] : i \in 1 .. Len(bytes) } :
        \A out \in NP_TypeKeys_from(value) :
            /\ value <= TK_Tuple => out = [st |-> "ok", key |-> value]
            /\ value > TK_Tuple => out = Panicked
            /\ out.st = "ok" => out.key \in DeclaredTypeKeys

====
